---- MODULE Spec2Model ----
(***************************************************************************)
(* A model of src/main.py: GitHubAnalyzer's paginated discovery            *)
(* (collect_repositories_data), archive acquisition with branch fallback   *)
(* (download_repository_zip), the CK tool run and its aggregation          *)
(* (run_ck_analysis, parse_ck_results_from_temp), the incremental table    *)
(* (append_to_csv) and the per-repository loop                             *)
(* (analyze_repositories_with_ck, process_single_repository, main).        *)
(*                                                                         *)
(* Names (repository names, directory names) are sequences of tokens: a    *)
(* token is a word or a separator ("_", "-"), so Python's substring test   *)
(* is the contiguous-subsequence test and split/replace act on separator   *)
(* tokens.                                                                 *)
(***************************************************************************)
EXTENDS Integers, Sequences, FiniteSets, TLC

\* ------------------------------------------------------------------ bounds
\* largest target count N given to a full run (discovery plus the loop)
MaxRepos == 2
\* largest target count N given to discovery alone
MaxLimit == 4
\* most nodes the source puts in one page (the query asks for first: 20)
MaxPageLen == 2
\* most page requests followed in one discovery
MaxRequests == 3
\* most rows of a class-level output table
MaxClasses == 3
MaxRoots == 2

\* ------------------------------------------------------------- small helpers
Min(a, b) == IF a <= b THEN a ELSE b

Range(s) == {s[k] : k \in 1..Len(s)}

SeqsUpTo(S, n) == UNION {[1..k -> S] : k \in 0..n}

\* Python's `t in s` on strings, at token granularity
Contains(s, t) ==
    \E k \in 0..(Len(s) - Len(t)) : SubSeq(s, k + 1, k + Len(t)) = t

\* Python's sum() over one column of a list of rows
RECURSIVE SumOf(_, _)
SumOf(rows, col) ==
    IF rows = <<>> THEN 0 ELSE rows[1][col] + SumOf(Tail(rows), col)

\* ---------------------------------------------------------------- discovery
\* cursor = None (src/main.py:143); a continuation cursor is a positive offset
NoCursor == 0

\* the repositories the discovery source can hold, most popular first
Catalog ==
    << [owner |-> <<"acme">>, name |-> <<"app">>],
       [owner |-> <<"beta">>, name |-> <<"lib">>],
       [owner |-> <<"corp">>, name |-> <<"Kit">>],
       [owner |-> <<"dune">>, name |-> <<"my", "_", "sql">>] >>

\* a node of a page: a well-formed repository, a dict with a field missing,
\* or null
RepoNode(r) == [kind |-> "repo", owner |-> r.owner, name |-> r.name]
PartialNode == [kind |-> "partial", owner |-> <<>>, name |-> <<>>]
NullNode == [kind |-> "null", owner |-> <<>>, name |-> <<>>]

\* process_repository_data: the descriptor of a well-formed node
process_repository_data(node) == [owner |-> node.owner, name |-> node.name]

\* The discovery source.  A faithful source holds the first `count`
\* repositories of Catalog and serves them page by page; an arbitrary source
\* may answer a request with any response at all.
FaithfulPage(offset, count) ==
    LET last == Min(offset + MaxPageLen, count)
        nodes == [k \in 1..(IF last > offset THEN last - offset ELSE 0) |->
                     RepoNode(Catalog[offset + k])]
    IN  [conn |-> TRUE, status |-> 200, hasData |-> TRUE, nodes |-> nodes,
         hasNextPage |-> offset + MaxPageLen < count,
         endCursor |-> IF nodes = <<>> THEN NoCursor ELSE offset + Len(nodes)]

Nodes == {RepoNode(Catalog[1]), RepoNode(Catalog[2]), PartialNode, NullNode}

Cursors == {NoCursor, 1}

\* a connection failure, a non-success status, and a 200 whose JSON lacks the
\* 'data' key
EmptyBody(conn, status) ==
    [conn |-> conn, status |-> status, hasData |-> FALSE, nodes |-> <<>>,
     hasNextPage |-> FALSE, endCursor |-> NoCursor]

FailedResponses ==
    {EmptyBody(FALSE, 0)} \cup {EmptyBody(TRUE, s) : s \in {401, 403, 404, 500, 502}}

NoDataResponses == {EmptyBody(TRUE, 200)}

PageResponses ==
    {[conn |-> TRUE, status |-> 200, hasData |-> TRUE, nodes |-> ns,
      hasNextPage |-> h, endCursor |-> c] :
        ns \in SeqsUpTo(Nodes, MaxPageLen), h \in BOOLEAN, c \in Cursors}

\* the query as it would be if it never had an after clause
create_graphql_query_first_page(cur) == [hasAfter |-> FALSE, after |-> NoCursor]

\* create_graphql_query: the after clause is present only for a truthy cursor
create_graphql_query(cur) == [hasAfter |-> cur # NoCursor, after |-> cur]

\* the response the source gives to a query
Responses(src, query) ==
    IF src.mode = "faithful"
    THEN {FaithfulPage(IF query.hasAfter THEN query.after ELSE 0, src.count)}
    ELSE FailedResponses \cup NoDataResponses \cup PageResponses

\* make_request: the decoded JSON of a 200 response, None otherwise
NoneData ==
    [isNone |-> TRUE, hasData |-> FALSE, nodes |-> <<>>,
     hasNextPage |-> FALSE, endCursor |-> NoCursor]

\* make_request as it would be if a server error were answered with an empty
\* page to go on from
make_request_retrying(resp) ==
    IF ~resp.conn THEN NoneData
    ELSE IF resp.status = 200
         THEN [isNone |-> FALSE, hasData |-> resp.hasData, nodes |-> resp.nodes,
               hasNextPage |-> resp.hasNextPage, endCursor |-> resp.endCursor]
    ELSE IF resp.status >= 500
         THEN [isNone |-> FALSE, hasData |-> TRUE, nodes |-> <<>>,
               hasNextPage |-> TRUE, endCursor |-> NoCursor]
    ELSE NoneData

make_request(resp) ==
    IF ~resp.conn THEN NoneData
    ELSE IF resp.status = 200
         THEN [isNone |-> FALSE, hasData |-> resp.hasData, nodes |-> resp.nodes,
               hasNextPage |-> resp.hasNextPage, endCursor |-> resp.endCursor]
    ELSE IF resp.status = 401 THEN NoneData
    ELSE IF resp.status = 403 THEN NoneData
    ELSE IF resp.status >= 500 THEN NoneData
    ELSE NoneData

\* the loop over a page as it would be without `if collected >= limit: break`
RECURSIVE ProcessNodesWholePage(_, _, _, _)
ProcessNodesWholePage(nodes, repos, count, lim) ==
    IF nodes = <<>>
    THEN [repositories |-> repos, collected |-> count, raised |-> FALSE,
          unread |-> 0]
    ELSE IF nodes[1].kind = "repo"
    THEN ProcessNodesWholePage(Tail(nodes),
                               Append(repos, process_repository_data(nodes[1])),
                               count + 1, lim)
    ELSE IF nodes[1].kind = "partial"
    THEN ProcessNodesWholePage(Tail(nodes), repos, count, lim)
    ELSE [repositories |-> repos, collected |-> count, raised |-> TRUE,
          unread |-> Len(nodes) - 1]

\* the for loop over the nodes of one page (src/main.py:159-173): a node is
\* appended while collected < limit; a node with a field missing raises inside
\* the try and is skipped; a null node raises again inside the except handler
\* (repo.get on None), which nothing in the function catches
RECURSIVE ProcessNodes(_, _, _, _)
ProcessNodes(nodes, repos, count, lim) ==
    IF nodes = <<>> \/ count >= lim
    THEN [repositories |-> repos, collected |-> count, raised |-> FALSE,
          unread |-> Len(nodes)]
    ELSE IF nodes[1].kind = "repo"
    THEN ProcessNodes(Tail(nodes),
                      Append(repos, process_repository_data(nodes[1])),
                      count + 1, lim)
    ELSE IF nodes[1].kind = "partial"
    THEN ProcessNodes(Tail(nodes), repos, count, lim)
    ELSE [repositories |-> repos, collected |-> count, raised |-> TRUE,
          unread |-> Len(nodes) - 1]

\* `if not response_data or 'data' not in response_data: break`
ResponseUnusable(data) == data.isNone \/ ~data.hasData

\* the break after a page as it would be without the hasNextPage test
LastPageByCountOnly(data, count, lim) == count >= lim

\* the loop as it would be without the break after a page
LastPageNever(data, count, lim) == FALSE

\* `if not search_results['pageInfo']['hasNextPage'] or collected >= limit: break`
LastPage(data, count, lim) == ~data.hasNextPage \/ count >= lim

\* -------------------------------------------------------------------- names
\* str.lower() on a token
LowerTok(t) ==
    IF t = "Kit" THEN "kit"
    ELSE IF t = "KIT" THEN "kit"
    ELSE IF t = ".JAVA" THEN ".java"
    ELSE t

Lower(name) == [k \in 1..Len(name) |-> LowerTok(name[k])]

\* repo_name.replace('_', '-')
ReplaceUnderscore(name) ==
    [k \in 1..Len(name) |-> IF name[k] = "_" THEN "-" ELSE name[k]]

\* repo_name.split('_'): the parts between the "_" tokens
RECURSIVE SplitFrom(_, _, _)
SplitFrom(name, k, part) ==
    IF k > Len(name) THEN <<part>>
    ELSE IF name[k] = "_" THEN <<part>> \o SplitFrom(name, k + 1, <<>>)
    ELSE SplitFrom(name, k + 1, Append(part, name[k]))

Split(name) == SplitFrom(name, 1, <<>>)

\* hashlib.md5(f"{owner}/{name}").hexdigest()[:8], one token per repository
Md5Hex8(repo) ==
    LET k == CHOOSE j \in 1..Len(Catalog) : Catalog[j] = repo
    IN  <<"1f3a", "9c0e", "77b2", "e4d1">>[k]

\* process_single_repository's repo_name (src/main.py:557-563)
RepoName(win, repo) ==
    IF win THEN <<Md5Hex8(repo)>> ELSE repo.owner \o <<"_">> \o repo.name

\* self.temp_dir and len(self.temp_dir) (src/main.py:30-33)
TempDirLen(win) == IF win THEN 1 ELSE 4

\* ------------------------------------------------------------------ archives
\* An archive is the sequence of its entries (zip_ref.infolist()).  An entry
\* has the name of its first path component (top), the length of its whole
\* name, the number of '/' in it, whether it holds one of < > : " | ? *,
\* whether it is a directory entry, its extension, and whether extracting it
\* raises (a bad CRC, a name the file system refuses).
Entry(top, len, slashes, special, isDir, ext, broken) ==
    [top |-> top, nameLen |-> len, slashes |-> slashes, special |-> special,
     isDir |-> isDir, ext |-> ext, broken |-> broken]

DirEntry(top) == Entry(top, 10, 1, FALSE, TRUE, "", FALSE)
FileEntry(top, len, slashes, ext) == Entry(top, len, slashes, FALSE, FALSE, ext, FALSE)

\* len(os.path.join(self.temp_dir, member.filename))
JoinLen(win, e) == TempDirLen(win) + 1 + e.nameLen

AllowedExt == {".java", ".xml", ".properties", ".gradle", ".pom", ".kt", ".scala", ""}

\* the Windows branch's filters after a "main" download (src/main.py:236-269)
KeepMain(e) ==
    /\ ~(JoinLen(TRUE, e) > 220)
    /\ ~(e.nameLen > 180)
    /\ ~(e.slashes > 12)
    /\ ~e.special
    /\ (~e.isDir => LowerTok(e.ext) \in AllowedExt)
    /\ ~e.broken

\* the Windows branch's filters after a "master" download (src/main.py:368-381)
KeepMaster(e) ==
    /\ ~(JoinLen(TRUE, e) > 220 \/ e.nameLen > 180 \/ e.slashes > 8 \/ e.special)
    /\ (~e.isDir => LowerTok(e.ext) \in AllowedExt)
    /\ ~e.broken

\* zip_ref.extractall: every entry in order, up to the first one that raises
RECURSIVE ExtractAll(_)
ExtractAll(entries) ==
    IF entries = <<>> THEN [tree |-> {}, raised |-> FALSE]
    ELSE IF entries[1].broken THEN [tree |-> {}, raised |-> TRUE]
    ELSE LET rest == ExtractAll(Tail(entries))
         IN  [tree |-> {entries[1]} \cup rest.tree, raised |-> rest.raised]

\* the extraction as it would be with extractall on every platform
ExtractUnfiltered(win, entries, branch) == ExtractAll(entries)

\* the extraction of an archive into the scratch directory
\* (src/main.py:233-272 and 366-383)
Extract(win, entries, branch) ==
    IF win
    THEN [tree |-> {e \in Range(entries) :
                       IF branch = "main" THEN KeepMain(e) ELSE KeepMaster(e)},
          raised |-> FALSE]
    ELSE ExtractAll(entries)

\* os.listdir(self.temp_dir) filtered by os.path.isdir
AllDirs(tree) == {e.top : e \in {x \in tree : x.slashes >= 1}}

\* the top-level files of the scratch directory that came from the archive
TopFiles(tree) == {e.top : e \in {x \in tree : x.slashes = 0}}

\* -------------------------------------------------- directory resolution
\* the first of the candidate names that is a directory
RECURSIVE FirstIn(_, _)
FirstIn(names, dirs) ==
    IF names = <<>> THEN {}
    ELSE IF names[1] \in dirs THEN {names[1]}
    ELSE FirstIn(Tail(names), dirs)

\* possible_names after a "main" download (src/main.py:289-296)
PossibleNamesMain(repo_name) ==
    LET repo_clean == ReplaceUnderscore(repo_name)
    IN  << repo_clean \o <<"-", "main">>, repo_clean \o <<"-", "master">>,
           repo_clean \o <<"-", "develop">>, repo_clean, repo_name >>

\* possible_names after a "master" download (src/main.py:391-397)
PossibleNamesMaster(repo_name) ==
    LET repo_clean == ReplaceUnderscore(repo_name)
    IN  << repo_clean \o <<"-", "master">>, repo_clean \o <<"-", "main">>,
           repo_clean, repo_name >>

\* strategy 2 (src/main.py:305-313)
BySubstring(repo_name, dirs) ==
    LET parts == Split(repo_name) IN
    IF Len(parts) >= 2
    THEN {d \in dirs :
            /\ Contains(d, parts[2])
            /\ \/ Contains(d, parts[1])
               \/ Contains(d, <<"main">>)
               \/ Contains(d, <<"master">>)}
    ELSE {}

\* strategy 3 (src/main.py:316-325)
ByRepoPart(repo_name, dirs) ==
    LET parts == Split(repo_name) IN
    IF Len(parts) >= 2
    THEN {d \in dirs : Contains(Lower(d), Lower(parts[2]))}
    ELSE {}

\* d.startswith('.')
Hidden(d) == Len(d) >= 1 /\ d[1] = "."

\* The directories extracted_path may name after a "main" download; the empty
\* set is None.  Each strategy takes the first match in os.listdir's order,
\* which is arbitrary: any match of the winning strategy may be the one.
ExtractedPathMain(repo_name, dirs) ==
    LET exact == FirstIn(PossibleNamesMain(repo_name), dirs)
        sub == BySubstring(repo_name, dirs)
        part == ByRepoPart(repo_name, dirs)
    IN  IF exact # {} THEN exact
        ELSE IF sub # {} THEN sub
        ELSE IF part # {} THEN part
        ELSE IF Cardinality(dirs) = 1 THEN dirs
        ELSE {d \in dirs : ~Hidden(d)}

\* the same after a "master" download (src/main.py:399-405)
ExtractedPathMaster(repo_name, dirs) ==
    LET exact == FirstIn(PossibleNamesMaster(repo_name), dirs)
    IN  IF exact # {} THEN exact
        ELSE IF Cardinality(dirs) = 1 THEN dirs
        ELSE {}

\* a directory of the scratch directory with nothing in it
DirEmpty(tree, d) == \A e \in tree : e.top = d => (e.isDir /\ e.slashes = 1)

\* os.rename(extracted_path, clone_path) raises when the destination exists,
\* except that POSIX replaces an empty directory
RenameRaises(win, tree, to) ==
    \/ to \in TopFiles(tree)
    \/ to \in AllDirs(tree) /\ (win \/ ~DirEmpty(tree, to))

Rename(tree, from, to) ==
    {IF e.top = from THEN [e EXCEPT !.top = to] ELSE e :
        e \in {x \in tree : x.top # to}}

\* cleanup_repo: shutil.rmtree(repo_path)
cleanup_repo(tree, repo_name) == {e \in tree : e.top # repo_name}

\* ------------------------------------------------------- tool output, metrics
\* a cell of class.csv is the text of a number, or text float() refuses
NotANumber == -1

ClassRow(cbo, lcom, dit, loc) == [cbo |-> cbo, lcom |-> lcom, dit |-> dit, loc |-> loc]

ClassRows == {ClassRow(1, 10, 1, 100), ClassRow(2, 0, 3, 50), ClassRow(3, 5, 2, 7)}

\* the class tables the tool writes in a full run
ClassTables ==
    { <<>>,
      <<ClassRow(1, 10, 1, 100), ClassRow(2, 0, 3, 50), ClassRow(3, 5, 2, 7)>>,
      <<ClassRow(2, 0, 3, 50)>>,
      <<ClassRow(1, 10, 1, 100), ClassRow(2, NotANumber, 3, 50)>> }

WellFormed(table) ==
    \A k \in 1..Len(table) :
        \A col \in {"cbo", "lcom", "dit", "loc"} : table[k][col] # NotANumber

CsvFiles == {"class.csv", "method.csv", "field.csv", "variable.csv"}

Metrics(classes, cbo, lcom, dit, loc) ==
    [total_classes |-> classes, total_methods |-> 0, total_fields |-> 0,
     total_variables |-> 0, avg_wmc |-> 0, cbo |-> cbo, lcom |-> lcom,
     dit |-> dit, avg_noc |-> 0, avg_rfc |-> 0, loc |-> loc, avg_cc |-> 0]

ZeroMetrics == Metrics(0, 0, 0, 0, 0)

NoMetrics == [none |-> TRUE, values |-> ZeroMetrics]

\* the column's average, as it would be with sum(...) / len(classes)
ColumnAverage(classes, col) ==
    IF classes = <<>> THEN 0 ELSE SumOf(classes, col) \div Len(classes)

\* sum(float(c.get(col, 0)) for c in classes)
ColumnSum(classes, col) == SumOf(classes, col)

\* the parse as it would be if an absent class.csv were a failure
parse_ck_results_failing_when_absent(files, classes) ==
    IF "class.csv" \notin files \/ ~WellFormed(classes) THEN NoMetrics
    ELSE [none |-> FALSE,
          values |-> Metrics(Len(classes), ColumnSum(classes, "cbo"),
                             ColumnSum(classes, "lcom"), ColumnSum(classes, "dit"),
                             ColumnSum(classes, "loc"))]

\* parse_ck_results_from_temp (src/main.py:485-530): the metrics of the class
\* table, zeros when class.csv is absent, None when float() raises
parse_ck_results_from_temp(files, classes) ==
    IF "class.csv" \notin files THEN [none |-> FALSE, values |-> ZeroMetrics]
    ELSE IF ~WellFormed(classes) THEN NoMetrics
    ELSE [none |-> FALSE,
          values |-> Metrics(Len(classes), ColumnSum(classes, "cbo"),
                             ColumnSum(classes, "lcom"), ColumnSum(classes, "dit"),
                             ColumnSum(classes, "loc"))]

\* the removal as it would be if only class.csv were removed
cleanup_temp_csv_files_class_only(files) == files \ {"class.csv"}

\* cleanup_temp_csv_files
cleanup_temp_csv_files(files) == files \ CsvFiles

\* ------------------------------------------------------------ durable table
NoResult == [none |-> TRUE, owner |-> <<>>, name |-> <<>>, values |-> ZeroMetrics]

\* the result as it would be with a placeholder record for a failed analysis
CombinedRecordOrPlaceholder(repo, ck_metrics) ==
    [none |-> FALSE, owner |-> repo.owner, name |-> repo.name,
     values |-> IF ck_metrics.none THEN ZeroMetrics ELSE ck_metrics.values]

\* process_single_repository's result (src/main.py:580-605): the descriptor
\* merged with the metrics when run_ck_analysis returned some, else None
CombinedRecord(repo, ck_metrics) ==
    IF ~ck_metrics.none
    THEN [none |-> FALSE, owner |-> repo.owner, name |-> repo.name,
          values |-> ck_metrics.values]
    ELSE NoResult

HeaderLine == [kind |-> "header", owner |-> <<>>, name |-> <<>>, values |-> ZeroMetrics]

\* writer.writerow(repo_data): the columns of the row
RowLine(record) ==
    [kind |-> "row", owner |-> record.owner, name |-> record.name,
     values |-> record.values]

NoTable == [exists |-> FALSE, lines |-> <<>>]

\* append_to_csv as it would be with the file opened in mode 'w'
append_to_csv_truncating(file, record) ==
    [exists |-> TRUE, lines |-> <<HeaderLine, RowLine(record)>>]

\* append_to_csv as it would be if the new row went above the earlier rows
append_to_csv_prepending(file, record) ==
    [exists |-> TRUE,
     lines |-> <<HeaderLine, RowLine(record)>>
               \o (IF file.exists THEN Tail(file.lines) ELSE <<>>)]

\* append_to_csv as it would be if every append wrote the header
append_to_csv_always_header(file, record) ==
    [exists |-> TRUE,
     lines |-> (IF file.exists THEN file.lines ELSE <<>>)
               \o <<HeaderLine, RowLine(record)>>]

\* append_to_csv (src/main.py:626-632)
append_to_csv(file, record) ==
    [exists |-> TRUE,
     lines |-> (IF file.exists THEN file.lines ELSE <<HeaderLine>>)
               \o <<RowLine(record)>>]

DataRows(file) == SelectSeq(file.lines, LAMBDA l : l.kind = "row")

\* -------------------------------------------------- what a download returns
\* the root directory GitHub gives an archive: <name>-<branch>
StdRoot(repo, branch) == repo.name \o <<"-", branch>>

Standard(root) ==
    << DirEntry(root), FileEntry(root, 40, 3, ".java"), FileEntry(root, 20, 1, ".md") >>

LongPaths(root) ==
    << DirEntry(root), FileEntry(root, 180, 2, ".java"),
       FileEntry(root, 181, 2, ".java"), FileEntry(root, 248, 2, ".java"),
       FileEntry(root, 60, 9, ".java"), FileEntry(root, 60, 13, ".java"),
       Entry(root, 30, 2, TRUE, FALSE, ".java", FALSE),
       FileEntry(root, 31, 2, ".JAVA") >>

TwoRoots ==
    << DirEntry(<<"docs">>), FileEntry(<<"docs">>, 20, 1, ".md"),
       DirEntry(<<"code">>), FileEntry(<<"code">>, 30, 2, ".java") >>

HiddenRoots ==
    << DirEntry(<<".", "git">>), FileEntry(<<".", "git">>, 20, 1, ""),
       DirEntry(<<".", "ci">>), FileEntry(<<".", "ci">>, 20, 1, ".xml") >>

TopFileOnly == << FileEntry(<<"README">>, 6, 0, "") >>

Broken(root) ==
    << DirEntry(root), FileEntry(root, 40, 3, ".java"),
       Entry(root, 50, 2, FALSE, FALSE, ".java", TRUE),
       FileEntry(root, 41, 3, ".java") >>

Zip(entries) == [present |-> TRUE, valid |-> TRUE, entries |-> entries]
CorruptZip == [present |-> TRUE, valid |-> FALSE, entries |-> <<>>]
NoZip == [present |-> FALSE, valid |-> FALSE, entries |-> <<>>]

Bodies(repo, branch) ==
    { Zip(Standard(StdRoot(repo, branch))), Zip(LongPaths(StdRoot(repo, branch))),
      Zip(TwoRoots), Zip(HiddenRoots), Zip(TopFileOnly), Zip(<<>>),
      Zip(Broken(StdRoot(repo, branch))), CorruptZip }

\* What urlopen and the copy of the body do: a 200 with a body, another
\* success status, an HTTPError, a URLError or timeout, a stream that breaks
\* while the body is copied.
DownloadResponses(repo, branch) ==
    {[error |-> "none", status |-> 200, body |-> b] : b \in Bodies(repo, branch)}
    \cup {[error |-> "none", status |-> 204, body |-> NoZip]}
    \cup {[error |-> "http", status |-> c, body |-> NoZip] : c \in {404, 403, 500}}
    \cup {[error |-> "url", status |-> 0, body |-> NoZip]}
    \cup {[error |-> "stream", status |-> 200, body |-> CorruptZip]}

NoResponse == [error |-> "unsent", status |-> 0, body |-> NoZip]

\* the fallback as it would be without the test of e.code
TriesMasterOnAnyHttpError(resp) == resp.error = "http"

\* `except urllib.error.HTTPError as e: if e.code == 404:`
TriesMaster(resp) == resp.error = "http" /\ resp.status = 404

\* what the tool does: its exit, and the class table it leaves when it
\* writes its output files
PartialTable == <<ClassRow(3, 5, 2, 7)>>

ToolRuns ==
    {[exit |-> "zero", wrote |-> TRUE, classes |-> t] : t \in ClassTables}
    \cup {[exit |-> "zero", wrote |-> FALSE, classes |-> <<>>]}
    \cup {[exit |-> x, wrote |-> TRUE, classes |-> PartialTable] :
            x \in {"nonzero", "timeout"}}
    \cup {[exit |-> x, wrote |-> FALSE, classes |-> <<>>] :
            x \in {"nonzero", "timeout", "nolaunch"}}

\* the tool has not been run
NoRun == [exit |-> "unrun", wrote |-> FALSE, classes |-> <<>>]

NoPath == <<>>

NothingRead == [read |-> FALSE, classes |-> <<>>]

\* ------------------------------------------------------------------- state
VARIABLES
    pc,              \* where the program is
    windows,         \* platform.system() == "Windows"
    jarExists,       \* os.path.exists(self.ck_jar_path)
    source,          \* the discovery source: [mode, count]
    limit,           \* collect_repositories_data's limit
    repositories,    \* the descriptors collected so far, then the list returned
    cursor,          \* the continuation cursor
    collected,       \* the counter of collected descriptors
    nreq,            \* page requests issued by this discovery
    lastQuery,       \* the query of the last page request
    lastResp,        \* the response to the last page request, without its nodes
    reposAtFailure,  \* `repositories` when a page request first got none
    failedResp,      \* whether some page request got no success status
    csv,             \* repositories_ck_analysis.csv: [exists, lines]
    tempExists,      \* os.path.exists(self.temp_dir)
    tree,            \* the archive entries extracted under the scratch directory
    zipFile,         \* <repo_name>.zip in the scratch directory
    ckFiles,         \* the tool's output files in the scratch directory
    classCsv,        \* the rows of class.csv
    i,               \* the index of the loop of analyze_repositories_with_ck
    processed_repos, \* the records of the repositories processed so far
    log,             \* per finished iteration: what happened, what was returned
    repo_path,       \* process_single_repository's repo_path, NoPath for None
    archive,         \* the entries of the archive this iteration extracted from
    dlreqs,          \* the branches this iteration requested an archive of
    mainResp,        \* the response to this iteration's "main" request
    classesRead,     \* the class table parse_ck_results_from_temp read
    ck_metrics,      \* what run_ck_analysis returned
    result,          \* what process_single_repository returned
    outcome,         \* how far this iteration got
    cleanups,        \* the calls of cleanup_repo this iteration made
    toolRun          \* what the tool did when this iteration ran it

envVars == <<windows, jarExists, source>>

discVars == <<limit, repositories, cursor, collected, nreq, lastQuery,
              lastResp, reposAtFailure, failedResp>>

fileVars == <<csv, tempExists, tree, zipFile, ckFiles, classCsv>>

loopVars == <<i, processed_repos, log>>

iterVars == <<repo_path, archive, dlreqs, mainResp, classesRead, ck_metrics,
              result, outcome, cleanups, toolRun>>

vars == <<pc, envVars, discVars, fileVars, loopVars, iterVars>>

ArbitrarySource == [mode |-> "arbitrary", count |-> 0]

Sources ==
    {ArbitrarySource}
    \cup {[mode |-> "faithful", count |-> m] : m \in 0..Len(Catalog)}

\* what is remembered of a response: all but its nodes, and how many of them
\* the loop over the page never looked at
Summary(resp, unread) ==
    [conn |-> resp.conn, status |-> resp.status, hasData |-> resp.hasData,
     hasNextPage |-> resp.hasNextPage, endCursor |-> resp.endCursor,
     unread |-> unread]

\* the source did not answer with a success status
Failed(resp) == ~resp.conn \/ resp.status # 200

NoQuery == create_graphql_query(NoCursor)

\* a table an earlier run left
OldTable ==
    [exists |-> TRUE,
     lines |-> <<HeaderLine,
                 [kind |-> "row", owner |-> <<"old">>, name |-> <<"run">>,
                  values |-> Metrics(9, 9, 9, 9, 9)]>>]

FreshIteration ==
    /\ repo_path = NoPath
    /\ archive = <<>>
    /\ dlreqs = <<>>
    /\ mainResp = NoResponse
    /\ classesRead = NothingRead
    /\ ck_metrics = NoMetrics
    /\ result = NoResult
    /\ outcome = "none"
    /\ cleanups = 0
    /\ toolRun = NoRun

FreshDiscovery ==
    /\ cursor = NoCursor
    /\ collected = 0
    /\ nreq = 0
    /\ lastQuery = NoQuery
    /\ lastResp = Summary(EmptyBody(TRUE, 200), 0)
    /\ reposAtFailure = <<>>
    /\ failedResp = FALSE

\* the locals of a finished call are gone
ForgetIteration ==
    /\ repo_path' = NoPath
    /\ archive' = <<>>
    /\ dlreqs' = <<>>
    /\ mainResp' = NoResponse
    /\ classesRead' = NothingRead
    /\ ck_metrics' = NoMetrics
    /\ result' = NoResult
    /\ outcome' = "none"
    /\ cleanups' = 0
    /\ toolRun' = NoRun

ForgetDiscovery ==
    /\ cursor' = NoCursor
    /\ collected' = 0
    /\ nreq' = 0
    /\ lastQuery' = NoQuery
    /\ limit' = 0
    /\ lastResp' = Summary(EmptyBody(TRUE, 200), 0)
    /\ reposAtFailure' = <<>>
    /\ failedResp' = FALSE

InitWith(start, limits, sources, flags, tables) ==
    /\ pc = start
    /\ windows \in flags
    /\ jarExists \in flags
    /\ source \in sources
    /\ limit \in limits
    /\ repositories = <<>>
    /\ FreshDiscovery
    /\ csv \in tables
    /\ tempExists \in flags
    /\ tree = {}
    /\ zipFile = NoZip
    /\ ckFiles = {}
    /\ classCsv = <<>>
    /\ i = 0
    /\ processed_repos = <<>>
    /\ log = <<>>
    /\ FreshIteration

\* ---------------------------------------------------------------- discovery
\* the start as it would be if the old table were left where it is
RemoveOldCsvKeeping ==
    /\ pc = "start"
    /\ pc' = "collect"
    /\ UNCHANGED <<envVars, discVars, fileVars, loopVars, iterVars>>

\* analyze_repositories_with_ck removes the old table (src/main.py:643-648)
RemoveOldCsv ==
    /\ pc = "start"
    /\ csv' = NoTable
    /\ pc' = "collect"
    /\ UNCHANGED <<envVars, discVars, tempExists, tree, zipFile, ckFiles,
                   classCsv, loopVars, iterVars>>

\* one turn of the while loop of collect_repositories_data: the request, the
\* nodes of the page, and the decision to go on
CollectPage ==
    /\ pc = "collect"
    /\ collected < limit
    /\ nreq < MaxRequests
    /\ LET query == create_graphql_query(cursor) IN
       \E resp \in Responses(source, query) :
          LET data == make_request(resp)
              page == ProcessNodes(data.nodes, repositories, collected, limit)
          IN  /\ nreq' = nreq + 1
              /\ lastQuery' = query
              /\ lastResp' = Summary(resp, IF ResponseUnusable(data)
                                            THEN 0 ELSE page.unread)
              /\ failedResp' = (failedResp \/ Failed(resp))
              /\ reposAtFailure' = IF Failed(resp) /\ ~failedResp
                                   THEN repositories ELSE reposAtFailure
              /\ IF ResponseUnusable(data)
                 THEN /\ pc' = "collected"
                      /\ UNCHANGED <<repositories, collected, cursor>>
                 ELSE /\ repositories' = page.repositories
                      /\ collected' = page.collected
                      /\ IF page.raised
                         THEN pc' = "raised" /\ cursor' = cursor
                         ELSE IF LastPage(data, page.collected, limit)
                         THEN pc' = "collected" /\ cursor' = cursor
                         ELSE pc' = "collect" /\ cursor' = data.endCursor
    /\ UNCHANGED <<envVars, limit, fileVars, loopVars, iterVars>>

\* the while condition fails before any request
CollectExit ==
    /\ pc = "collect"
    /\ collected >= limit
    /\ pc' = "collected"
    /\ UNCHANGED <<envVars, discVars, fileVars, loopVars, iterVars>>

\* collect_repositories_data has returned (src/main.py:653-677): with no
\* repository analyze_repositories_with_ck returns [], else the loop starts;
\* the locals of the discovery are gone
BeginLoop ==
    /\ pc = "collected"
    /\ ForgetDiscovery
    /\ IF repositories = <<>>
       THEN pc' = "summary" /\ i' = i
       ELSE pc' = "clear" /\ i' = 1
    /\ UNCHANGED <<envVars, repositories, fileVars, processed_repos, log,
                   iterVars>>

\* ------------------------------------------------- download_repository_zip
\* the clearing as it would be if only directories were removed
ClearScratchDirsOnly ==
    /\ pc = "clear"
    /\ tempExists' = TRUE
    /\ tree' = {}
    /\ pc' = "reqMain"
    /\ UNCHANGED <<envVars, discVars, csv, zipFile, ckFiles, classCsv,
                   loopVars, iterVars>>

\* the clearing as it would be if only files were removed
ClearScratchFilesOnly ==
    /\ pc = "clear"
    /\ tempExists' = TRUE
    /\ zipFile' = NoZip
    /\ ckFiles' = {}
    /\ classCsv' = <<>>
    /\ pc' = "reqMain"
    /\ UNCHANGED <<envVars, discVars, csv, tree, loopVars, iterVars>>

\* the scratch directory is emptied, or created (src/main.py:193-201)
ClearScratch ==
    /\ pc = "clear"
    /\ tempExists' = TRUE
    /\ tree' = {}
    /\ zipFile' = NoZip
    /\ ckFiles' = {}
    /\ classCsv' = <<>>
    /\ pc' = "reqMain"
    /\ UNCHANGED <<envVars, discVars, csv, loopVars, iterVars>>

\* download_repository_zip returns None, so process_single_repository does
ReturnNoPath ==
    /\ pc' = "returned"
    /\ repo_path' = NoPath
    /\ result' = NoResult
    /\ outcome' = "no_path"
    /\ UNCHANGED <<ck_metrics, classesRead>>

\* the request for main.zip (src/main.py:220-229, 352-353, 416-421)
RequestMain ==
    /\ pc = "reqMain"
    /\ \E resp \in DownloadResponses(repositories[i], "main") :
          /\ dlreqs' = Append(dlreqs, "main")
          /\ mainResp' = resp
          /\ IF resp.error = "none" /\ resp.status = 200
             THEN /\ zipFile' = resp.body
                  /\ pc' = "extractMain"
                  /\ UNCHANGED <<repo_path, result, outcome, ck_metrics, classesRead>>
             ELSE IF resp.error = "none"
             THEN zipFile' = zipFile /\ ReturnNoPath
             ELSE IF resp.error = "stream"
             THEN zipFile' = resp.body /\ ReturnNoPath
             ELSE IF TriesMaster(resp)
             THEN /\ zipFile' = zipFile
                  /\ pc' = "reqMaster"
                  /\ UNCHANGED <<repo_path, result, outcome, ck_metrics, classesRead>>
             ELSE zipFile' = zipFile /\ ReturnNoPath
    /\ UNCHANGED <<envVars, discVars, csv, tempExists, tree, ckFiles, classCsv,
                   loopVars, archive, cleanups, toolRun>>

\* zipfile.ZipFile(zip_path), the extraction, os.remove(zip_path)
\* (src/main.py:233-275); any exception returns None (src/main.py:419-421)
ExtractMain ==
    /\ pc = "extractMain"
    /\ archive' = zipFile.entries
    /\ LET x == Extract(windows, zipFile.entries, "main") IN
       IF ~zipFile.valid
       THEN UNCHANGED <<tree, zipFile>> /\ ReturnNoPath
       ELSE IF x.raised
       THEN tree' = tree \cup x.tree /\ zipFile' = zipFile /\ ReturnNoPath
       ELSE /\ tree' = tree \cup x.tree
            /\ zipFile' = NoZip
            /\ pc' = "resolveMain"
            /\ UNCHANGED <<repo_path, result, outcome, ck_metrics, classesRead>>
    /\ UNCHANGED <<envVars, discVars, csv, tempExists, ckFiles, classCsv,
                   loopVars, dlreqs, mainResp, cleanups, toolRun>>

\* the search for the extracted directory and its renaming
\* (src/main.py:281-350)
ResolveMain ==
    /\ pc = "resolveMain"
    /\ LET repo_name == RepoName(windows, repositories[i])
           found == ExtractedPathMain(repo_name, AllDirs(tree))
       IN  IF found = {}
           THEN tree' = tree /\ ReturnNoPath
           ELSE \E extracted \in found :
                  IF extracted # repo_name /\ RenameRaises(windows, tree, repo_name)
                  THEN tree' = tree /\ ReturnNoPath
                  ELSE /\ tree' = IF extracted # repo_name
                                  THEN Rename(tree, extracted, repo_name)
                                  ELSE tree
                       /\ repo_path' = repo_name
                       /\ pc' = "analyze"
                       /\ UNCHANGED <<result, outcome, ck_metrics, classesRead>>
    /\ UNCHANGED <<envVars, discVars, csv, tempExists, zipFile, ckFiles,
                   classCsv, loopVars, archive, dlreqs, mainResp, cleanups,
                   toolRun>>

\* the request for master.zip after a 404 (src/main.py:356-363, 413-417)
RequestMaster ==
    /\ pc = "reqMaster"
    /\ \E resp \in DownloadResponses(repositories[i], "master") :
          /\ dlreqs' = Append(dlreqs, "master")
          /\ IF resp.error = "none" /\ resp.status = 200
             THEN /\ zipFile' = resp.body
                  /\ pc' = "extractMaster"
                  /\ UNCHANGED <<repo_path, result, outcome, ck_metrics, classesRead>>
             ELSE IF resp.error = "stream"
             THEN zipFile' = resp.body /\ ReturnNoPath
             ELSE zipFile' = zipFile /\ ReturnNoPath
    /\ UNCHANGED <<envVars, discVars, csv, tempExists, tree, ckFiles, classCsv,
                   loopVars, archive, mainResp, cleanups, toolRun>>

\* the extraction of master.zip (src/main.py:366-384)
ExtractMaster ==
    /\ pc = "extractMaster"
    /\ archive' = zipFile.entries
    /\ LET x == Extract(windows, zipFile.entries, "master") IN
       IF ~zipFile.valid
       THEN UNCHANGED <<tree, zipFile>> /\ ReturnNoPath
       ELSE IF x.raised
       THEN tree' = tree \cup x.tree /\ zipFile' = zipFile /\ ReturnNoPath
       ELSE /\ tree' = tree \cup x.tree
            /\ zipFile' = NoZip
            /\ pc' = "resolveMaster"
            /\ UNCHANGED <<repo_path, result, outcome, ck_metrics, classesRead>>
    /\ UNCHANGED <<envVars, discVars, csv, tempExists, ckFiles, classCsv,
                   loopVars, dlreqs, mainResp, cleanups, toolRun>>

\* the search for the extracted directory after a "master" download
\* (src/main.py:387-417)
ResolveMaster ==
    /\ pc = "resolveMaster"
    /\ LET repo_name == RepoName(windows, repositories[i])
           found == ExtractedPathMaster(repo_name, AllDirs(tree))
       IN  IF found = {}
           THEN tree' = tree /\ ReturnNoPath
           ELSE \E extracted \in found :
                  IF extracted # repo_name /\ RenameRaises(windows, tree, repo_name)
                  THEN tree' = tree /\ ReturnNoPath
                  ELSE /\ tree' = IF extracted # repo_name
                                  THEN Rename(tree, extracted, repo_name)
                                  ELSE tree
                       /\ repo_path' = repo_name
                       /\ pc' = "analyze"
                       /\ UNCHANGED <<result, outcome, ck_metrics, classesRead>>
    /\ UNCHANGED <<envVars, discVars, csv, tempExists, zipFile, ckFiles,
                   classCsv, loopVars, archive, dlreqs, mainResp, cleanups,
                   toolRun>>

\* ------------------------------------------------------------ run_ck_analysis
\* run_ck_analysis as it would be without the test of the jar's existence:
\* the tool is started whether the jar is there or not
RunCKWithoutJarCheck ==
    /\ pc = "analyze"
    /\ \E run \in ToolRuns :
          /\ toolRun' = run
          /\ ckFiles' = IF run.wrote
                        THEN ckFiles \cup {"class.csv", "method.csv"}
                        ELSE ckFiles
          /\ classCsv' = IF run.wrote THEN run.classes ELSE classCsv
          /\ IF run.exit = "zero"
             THEN pc' = "parse" /\ UNCHANGED <<ck_metrics, outcome>>
             ELSE /\ ck_metrics' = NoMetrics
                  /\ outcome' = "no_metrics"
                  /\ pc' = "ckdone"
    /\ UNCHANGED <<envVars, discVars, csv, tempExists, tree, zipFile, loopVars,
                   repo_path, archive, dlreqs, mainResp, result, classesRead,
                   cleanups>>

\* run_ck_analysis up to the tool's exit (src/main.py:428-471)
RunCK ==
    /\ pc = "analyze"
    /\ IF ~jarExists
       THEN /\ ck_metrics' = NoMetrics
            /\ outcome' = "no_metrics"
            /\ pc' = "ckdone"
            /\ UNCHANGED <<ckFiles, classCsv, toolRun>>
       ELSE \E run \in ToolRuns :
              /\ toolRun' = run
              /\ ckFiles' = IF run.wrote
                            THEN ckFiles \cup {"class.csv", "method.csv"}
                            ELSE ckFiles
              /\ classCsv' = IF run.wrote THEN run.classes ELSE classCsv
              /\ IF run.exit = "zero"
                 THEN pc' = "parse" /\ UNCHANGED <<ck_metrics, outcome>>
                 ELSE /\ ck_metrics' = NoMetrics
                      /\ outcome' = "no_metrics"
                      /\ pc' = "ckdone"
    /\ UNCHANGED <<envVars, discVars, csv, tempExists, tree, zipFile, loopVars,
                   repo_path, archive, dlreqs, mainResp, result, classesRead,
                   cleanups>>

\* parse_ck_results_from_temp with its cleanup_temp_csv_files
\* (src/main.py:461, 485-530)
ParseCK ==
    /\ pc = "parse"
    /\ ck_metrics' = parse_ck_results_from_temp(ckFiles, classCsv)
    /\ classesRead' = [read |-> "class.csv" \in ckFiles, classes |-> classCsv]
    /\ outcome' = IF ck_metrics'.none THEN "no_metrics" ELSE "metrics"
    /\ ckFiles' = cleanup_temp_csv_files(ckFiles)
    /\ classCsv' = <<>>
    /\ pc' = "ckdone"
    /\ UNCHANGED <<envVars, discVars, csv, tempExists, tree, zipFile, loopVars,
                   repo_path, archive, dlreqs, mainResp, result, cleanups,
                   toolRun>>

\* process_single_repository after run_ck_analysis (src/main.py:580-605)
FinishRepository ==
    /\ pc = "ckdone"
    /\ result' = CombinedRecord(repositories[i], ck_metrics)
    /\ tree' = cleanup_repo(tree, repo_path)
    /\ cleanups' = cleanups + 1
    /\ pc' = "returned"
    /\ UNCHANGED <<envVars, discVars, csv, tempExists, zipFile, ckFiles,
                   classCsv, loopVars, repo_path, archive, dlreqs, mainResp,
                   classesRead, ck_metrics, outcome, toolRun>>

\* -------------------------------------------- analyze_repositories_with_ck
\* what is remembered of an iteration that has ended: which repository it
\* was, how it went, what it read, how often it called cleanup_repo, and
\* whether it left output files of the tool in the scratch directory
LogEntry ==
    [index |-> i, outcome |-> outcome, returned |-> ~result.none,
     classesRead |-> classesRead, cleanups |-> cleanups,
     leftover |-> (ckFiles \cap CsvFiles # {})]

\* the records written one after the other
RECURSIVE AppendAll(_, _)
AppendAll(file, records) ==
    IF records = <<>> THEN file
    ELSE AppendAll(append_to_csv(file, Head(records)), Tail(records))

\* the loop as it would be if the rows were written when the loop ends
LoopStepBatching ==
    /\ pc = "returned"
    /\ processed_repos' = IF ~result.none
                          THEN Append(processed_repos, result)
                          ELSE processed_repos
    /\ csv' = IF i < Len(repositories) THEN csv
              ELSE AppendAll(csv, processed_repos')
    /\ log' = Append(log, LogEntry)
    /\ i' = i + 1
    /\ pc' = IF i < Len(repositories) THEN "clear" ELSE "summary"
    /\ ForgetIteration
    /\ UNCHANGED <<envVars, discVars, tempExists, tree, zipFile, ckFiles,
                   classCsv>>

\* the loop as it would be if a failed repository ended it
LoopStepAbortingOnFailure ==
    /\ pc = "returned"
    /\ csv' = IF ~result.none THEN append_to_csv(csv, result) ELSE csv
    /\ processed_repos' = IF ~result.none
                          THEN Append(processed_repos, result)
                          ELSE processed_repos
    /\ log' = Append(log, LogEntry)
    /\ i' = i + 1
    /\ pc' = IF i < Len(repositories) /\ ~result.none THEN "clear" ELSE "summary"
    /\ ForgetIteration
    /\ UNCHANGED <<envVars, discVars, tempExists, tree, zipFile, ckFiles,
                   classCsv>>

\* the rest of the loop body (src/main.py:687-699): the row is appended when
\* there is a result, and the loop goes to the next repository
LoopStep ==
    /\ pc = "returned"
    /\ csv' = IF ~result.none THEN append_to_csv(csv, result) ELSE csv
    /\ processed_repos' = IF ~result.none
                          THEN Append(processed_repos, result)
                          ELSE processed_repos
    /\ log' = Append(log, LogEntry)
    /\ i' = i + 1
    /\ pc' = IF i < Len(repositories) THEN "clear" ELSE "summary"
    /\ ForgetIteration
    /\ UNCHANGED <<envVars, discVars, tempExists, tree, zipFile, ckFiles,
                   classCsv>>

\* main's end as it would be if analyzer.cleanup() were the last statement
\* of the try block
FinallyOnlyOnCompletion ==
    /\ pc \in {"summary", "raised", "interrupted"}
    /\ IF pc = "summary"
       THEN /\ tempExists' = FALSE
            /\ tree' = {}
            /\ zipFile' = NoZip
            /\ ckFiles' = {}
            /\ classCsv' = <<>>
       ELSE UNCHANGED <<tempExists, tree, zipFile, ckFiles, classCsv>>
    /\ pc' = "exit"
    /\ UNCHANGED <<envVars, discVars, csv, loopVars, iterVars>>

\* main's finally: analyzer.cleanup() (src/main.py:722-731, 850-856)
Finally ==
    /\ pc \in {"summary", "raised", "interrupted"}
    /\ tempExists' = FALSE
    /\ tree' = {}
    /\ zipFile' = NoZip
    /\ ckFiles' = {}
    /\ classCsv' = <<>>
    /\ pc' = "exit"
    /\ UNCHANGED <<envVars, discVars, csv, loopVars, iterVars>>

\* ------------------------------------------------------------ specifications
Init == InitWith("start", 0..MaxRepos, {ArbitrarySource}, BOOLEAN, {NoTable, OldTable})

Next ==
    \/ RemoveOldCsv
    \/ CollectPage
    \/ CollectExit
    \/ BeginLoop
    \/ ClearScratch
    \/ RequestMain
    \/ ExtractMain
    \/ ResolveMain
    \/ RequestMaster
    \/ ExtractMaster
    \/ ResolveMaster
    \/ RunCK
    \/ ParseCK
    \/ FinishRepository
    \/ LoopStep
    \/ Finally

Spec == Init /\ [][Next]_vars

\* ------------------------------------------------------ interruption, faults
\* the steps in which a repository is inside process_single_repository
InFlight ==
    {"clear", "reqMain", "extractMain", "resolveMain", "reqMaster",
     "extractMaster", "resolveMaster", "analyze", "parse", "ckdone"}

\* the steps inside main's try block
Interruptible ==
    InFlight \cup {"start", "collect", "collected", "returned", "summary"}

\* what the step a KeyboardInterrupt cuts short may already have written:
\* part of the archive file, some of the archive's entries, output files of
\* the tool, the row of the table
CutShort ==
    \/ UNCHANGED fileVars
    \/ /\ pc \in {"reqMain", "reqMaster"}
       /\ zipFile' = CorruptZip
       /\ UNCHANGED <<csv, tempExists, tree, ckFiles, classCsv>>
    \/ /\ pc \in {"extractMain", "extractMaster"}
       /\ zipFile.valid
       /\ \E k \in 1..Len(zipFile.entries) :
             tree' = tree \cup Extract(windows, SubSeq(zipFile.entries, 1, k),
                                       IF pc = "extractMain" THEN "main"
                                       ELSE "master").tree
       /\ UNCHANGED <<csv, tempExists, zipFile, ckFiles, classCsv>>
    \/ /\ pc = "analyze"
       /\ jarExists
       /\ ckFiles' = ckFiles \cup {"class.csv", "method.csv"}
       /\ classCsv' = PartialTable
       /\ UNCHANGED <<csv, tempExists, tree, zipFile>>
    \/ /\ pc = "returned"
       /\ ~result.none
       /\ csv' = append_to_csv(csv, result)
       /\ UNCHANGED <<tempExists, tree, zipFile, ckFiles, classCsv>>

\* KeyboardInterrupt anywhere in main's try block: no handler below main
\* catches it (they catch Exception), so control goes to src/main.py:850-851
\* and the locals of the calls it unwinds are gone; what is remembered is
\* whether a repository was in flight, and whether it had been acquired
Interrupt ==
    /\ pc \in Interruptible
    /\ CutShort
    /\ outcome' = IF pc \in InFlight THEN "interrupted" ELSE "none"
    /\ pc' = "interrupted"
    /\ archive' = <<>>
    /\ dlreqs' = <<>>
    /\ mainResp' = NoResponse
    /\ classesRead' = NothingRead
    /\ ck_metrics' = NoMetrics
    /\ result' = NoResult
    /\ cleanups' = 0
    /\ toolRun' = NoRun
    /\ IF pc \in {"start", "collect", "collected"}
       THEN ForgetDiscovery /\ repositories' = <<>>
       ELSE UNCHANGED discVars
    /\ UNCHANGED <<envVars, loopVars, repo_path>>

\* append_to_csv raises (src/main.py:626-632): open() fails, or the write
\* fails after open() made the file; nothing between append_to_csv and main
\* catches it, so control goes to src/main.py:852-853
AppendFails ==
    /\ pc = "returned"
    /\ ~result.none
    /\ csv' \in {csv, [exists |-> TRUE,
                       lines |-> IF csv.exists THEN csv.lines ELSE <<HeaderLine>>]}
    /\ log' = Append(log, [LogEntry EXCEPT !.outcome = "append_failed"])
    /\ pc' = "raised"
    /\ UNCHANGED <<envVars, discVars, tempExists, tree, zipFile, ckFiles,
                   classCsv, i, processed_repos, iterVars>>

\* os.remove(csv_filename) raises and the handler only prints
\* (src/main.py:644-648)
RemoveOldCsvFails ==
    /\ pc = "start"
    /\ csv.exists
    /\ pc' = "collect"
    /\ UNCHANGED <<envVars, discVars, fileVars, loopVars, iterVars>>

\* the run with user interruptions
NextInterrupt == Next \/ Interrupt

SpecInterrupt == Init /\ [][NextInterrupt]_vars

\* the run with user interruptions and I/O faults on the durable table
NextFaults == Next \/ Interrupt \/ AppendFails \/ RemoveOldCsvFails

SpecFaults == Init /\ [][NextFaults]_vars

\* collect_repositories_data alone, called with any limit
InitDiscovery == InitWith("collect", 0..MaxLimit, Sources, {FALSE}, {NoTable})

NextDiscovery == CollectPage \/ CollectExit

SpecDiscovery == InitDiscovery /\ [][NextDiscovery]_vars

\* collect_repositories_data as a running function: the interpreter takes the
\* next step of the loop whenever there is one (time.sleep(1) of line 180 is
\* the only wait)
SpecDiscoveryFair ==
    InitDiscovery /\ [][NextDiscovery]_vars /\ WF_vars(NextDiscovery)

\* parse_ck_results_from_temp and what follows it, for any class table of at
\* most MaxClasses rows: the state after the tool has exited with code 0 on
\* the first repository of a one-repository run
TableRows == ClassRows \cup {ClassRow(1, NotANumber, 1, 1)}

InitParse ==
    LET repo == Catalog[1]
        entries == Standard(StdRoot(repo, "main"))
    IN  /\ pc = "parse"
        /\ windows \in BOOLEAN
        /\ jarExists = TRUE
        /\ source = ArbitrarySource
        /\ limit = 0
        /\ repositories = <<repo>>
        /\ FreshDiscovery
        /\ csv = NoTable
        /\ tempExists = TRUE
        /\ tree = Rename(Extract(windows, entries, "main").tree,
                         StdRoot(repo, "main"), RepoName(windows, repo))
        /\ zipFile = NoZip
        /\ \/ /\ ckFiles = {"class.csv", "method.csv"}
              /\ classCsv \in SeqsUpTo(TableRows, MaxClasses)
              /\ toolRun = [exit |-> "zero", wrote |-> TRUE, classes |-> classCsv]
           \/ /\ ckFiles = {}
              /\ classCsv = <<>>
              /\ toolRun = [exit |-> "zero", wrote |-> FALSE, classes |-> <<>>]
        /\ i = 1
        /\ processed_repos = <<>>
        /\ log = <<>>
        /\ repo_path = RepoName(windows, repo)
        /\ archive = entries
        /\ dlreqs = <<"main">>
        /\ mainResp = [error |-> "none", status |-> 200, body |-> Zip(entries)]
        /\ classesRead = NothingRead
        /\ ck_metrics = NoMetrics
        /\ result = NoResult
        /\ outcome = "none"
        /\ cleanups = 0

NextParse == ParseCK \/ FinishRepository \/ LoopStep \/ Finally

SpecParse == InitParse /\ [][NextParse]_vars

\* Extraction and resolution alone, for any archive of at most MaxRoots
\* top-level directories: the state after the body of a 200 response was
\* written to the scratch directory, for main.zip or, after a 404, for
\* master.zip.  The names a top-level directory may have: the first exact
\* candidate, the local identifier itself, the root GitHub gives an archive
\* of either branch, a name that has the repository's name in another case,
\* two names that have nothing of the repository, and a hidden one.
RootNames(repo, repo_name) ==
    << ReplaceUnderscore(repo_name) \o <<"-", "main">>,
       repo_name,
       StdRoot(repo, "main"),
       StdRoot(repo, "master"),
       Lower(repo.name) \o <<"-", "src">>,
       <<"docs">>,
       <<"code">>,
       <<".", "git">> >>

\* a top-level directory with a source file and a deeply nested one
RootEntries(root) ==
    << DirEntry(root), FileEntry(root, 40, 3, ".java"),
       FileEntry(root, 60, 9, ".java") >>

RECURSIVE ArchiveOf(_, _)
ArchiveOf(names, chosen) ==
    IF names = <<>> THEN <<>>
    ELSE (IF Len(names) \in chosen THEN RootEntries(names[Len(names)]) ELSE <<>>)
         \o ArchiveOf(SubSeq(names, 1, Len(names) - 1), chosen)

InitResolve ==
    \E repo \in {Catalog[1], Catalog[3]}, win \in BOOLEAN,
       branch \in {"main", "master"} :
      LET names == RootNames(repo, RepoName(win, repo)) IN
      \E chosen \in {c \in SUBSET (1..Len(names)) : Cardinality(c) <= MaxRoots} :
        LET body == Zip(ArchiveOf(names, chosen)) IN
        /\ pc = IF branch = "main" THEN "extractMain" ELSE "extractMaster"
        /\ windows = win
        /\ jarExists = TRUE
        /\ source = ArbitrarySource
        /\ limit = 0
        /\ repositories = <<repo>>
        /\ FreshDiscovery
        /\ csv = NoTable
        /\ tempExists = TRUE
        /\ tree = {}
        /\ zipFile = body
        /\ ckFiles = {}
        /\ classCsv = <<>>
        /\ i = 1
        /\ processed_repos = <<>>
        /\ log = <<>>
        /\ repo_path = NoPath
        /\ archive = <<>>
        /\ dlreqs = IF branch = "main" THEN <<"main">> ELSE <<"main", "master">>
        /\ mainResp = IF branch = "main"
                      THEN [error |-> "none", status |-> 200, body |-> body]
                      ELSE [error |-> "http", status |-> 404, body |-> NoZip]
        /\ classesRead = NothingRead
        /\ ck_metrics = NoMetrics
        /\ result = NoResult
        /\ outcome = "none"
        /\ cleanups = 0
        /\ toolRun = NoRun

NextResolve == ExtractMain \/ ResolveMain \/ ExtractMaster \/ ResolveMaster

SpecResolve == InitResolve /\ [][NextResolve]_vars

\* ------------------------------------------------------------------- claims
Failure == {"no_path", "no_metrics"}

Last(s) == s[Len(s)]

\* C1: a repository whose acquisition, extraction or analysis failed gets no
\* row: once analyze_repositories_with_ck has removed the old table, the table
\* changes only in the step that ends an iteration whose tool run gave
\* metrics, never in a step of an iteration that failed.
C1_NoRowForFailedRepository ==
    [][(csv' # csv /\ pc # "start") => (pc = "returned" /\ outcome \notin Failure)]_vars

\* after a repository that got its row, one failed in acquisition, and the
\* table still holds the one row
C1_Witness ==
    /\ Len(log) = 2
    /\ log[1].outcome = "metrics"
    /\ log[2].outcome = "no_path"
    /\ Len(DataRows(csv)) = 1

\* C2: when an iteration in which the repository failed ends, no directory
\* remains under the scratch directory.
C2_NoResidualDirectory ==
    /\ (pc = "returned" /\ result.none) => AllDirs(tree) = {}
    /\ (pc \in {"clear", "summary"} /\ log # <<>> /\ ~Last(log).returned)
          => AllDirs(tree) = {}

\* the descriptors of the iterations 1..k that returned a record, in order
RECURSIVE ReturnedUpTo(_)
ReturnedUpTo(k) ==
    IF k = 0 THEN <<>>
    ELSE ReturnedUpTo(k - 1)
         \o (IF log[k].returned THEN <<repositories[k]>> ELSE <<>>)

RowIdentity(line) == [owner |-> line.owner, name |-> line.name]

\* C3: the data rows of the table are, one each and in order, the
\* repositories for which process_single_repository returned a record.
C3_ExactlyOneRowPerSuccess ==
    pc # "start" =>
        LET rows == DataRows(csv)
        IN  [k \in 1..Len(rows) |-> RowIdentity(rows[k])] = ReturnedUpTo(Len(log))

\* two repositories: the first returned a record, the second's tool run gave
\* no metrics, and the table holds one data row
C3_Witness ==
    /\ Len(log) = 2
    /\ log[1].returned
    /\ log[2].outcome = "no_metrics"
    /\ Len(DataRows(csv)) = 1

\* the sum of a column, row by row from the first
RECURSIVE TotalUpTo(_, _, _)
TotalUpTo(classes, col, n) ==
    IF n = 0 THEN 0 ELSE TotalUpTo(classes, col, n - 1) + classes[n][col]

SumsOf(classes, values) ==
    /\ values.total_classes = Len(classes)
    /\ \A col \in {"cbo", "lcom", "dit", "loc"} :
          values[col] = TotalUpTo(classes, col, Len(classes))

\* the number of iterations 1..k that returned a record
RowIndex(k) == Len(ReturnedUpTo(k))

\* C4: for a well-formed class table, parse_ck_results_from_temp returns the
\* number of rows as total_classes and the sum of each of cbo, lcom, dit, loc
\* over the rows, and the persisted row carries these values.
C4_SumsNotAverages ==
    /\ (pc = "ckdone" /\ classesRead.read /\ WellFormed(classesRead.classes))
          => (~ck_metrics.none /\ SumsOf(classesRead.classes, ck_metrics.values))
    /\ \A k \in 1..Len(log) :
          (log[k].classesRead.read /\ WellFormed(log[k].classesRead.classes))
             => /\ log[k].returned
                /\ RowIndex(k) <= Len(DataRows(csv))
                /\ SumsOf(log[k].classesRead.classes,
                          DataRows(csv)[RowIndex(k)].values)

\* three classes with cbo 1, 2, 3 were read and the row has cbo = 6
C4_Witness ==
    /\ Len(log) = 1
    /\ log[1].classesRead.read
    /\ Len(log[1].classesRead.classes) = 3
    /\ [k \in 1..3 |-> log[1].classesRead.classes[k].cbo] = <<1, 2, 3>>
    /\ Len(DataRows(csv)) = 1
    /\ DataRows(csv)[1].values.cbo = 6
    /\ DataRows(csv)[1].values.total_classes = 3

NotFound(resp) == resp.error = "http" /\ resp.status = 404

\* C5: the "master" archive is requested if and only if the "main" request
\* failed with HTTP 404, and once only: a repository causes at most two
\* download requests, "main" then "master".
C5_MasterOnlyAfter404 ==
    /\ dlreqs \in {<<>>, <<"main">>, <<"main", "master">>}
    /\ dlreqs = <<"main", "master">> => NotFound(mainResp)
    /\ (NotFound(mainResp) /\ pc # "reqMaster") => dlreqs = <<"main", "master">>
    /\ (mainResp.error \notin {"unsent"} /\ ~NotFound(mainResp)) => dlreqs = <<"main">>

\* acquisition failed after the 404 of "main" and one request for "master"
C5_Witness ==
    /\ pc = "returned"
    /\ outcome = "no_path"
    /\ NotFound(mainResp)
    /\ dlreqs = <<"main", "master">>

\* the entries whose destination path has 250 characters under the Windows
\* scratch directory "t"
Path250(entries) == {e \in Range(entries) : 1 + 1 + e.nameLen = 250}

\* C6: once an archive has been extracted, an entry whose joined destination
\* path is 250 characters long is not in the scratch directory on Windows and
\* is in it on any other platform.
C6_LongPathSkippedOnWindowsOnly ==
    pc \in {"resolveMain", "resolveMaster"} =>
        \A e \in Path250(archive) :
            /\ windows => e \notin tree
            /\ ~windows => e \in tree

\* an archive with such an entry has been extracted on Windows
C6_Witness ==
    /\ pc \in {"resolveMain", "resolveMaster"}
    /\ windows
    /\ Path250(archive) # {}
    /\ AllDirs(tree) # {}

\* C7: with a faithful source that holds fewer repositories than the target
\* count, discovery returns exactly the repositories the source holds.
C7_ReturnsAllWhenSourceIsSmaller ==
    (pc = "collected" /\ source.mode = "faithful" /\ limit > source.count)
        => repositories = [k \in 1..source.count |-> Catalog[k]]

\* the source's repositories came in more than one page
C7_Witness ==
    /\ pc = "collected"
    /\ source.mode = "faithful"
    /\ limit > source.count
    /\ nreq >= 2
    /\ Len(repositories) = source.count

InDiscovery == pc \in {"collect", "collected", "raised"}

\* C8: the sequence collect_repositories_data builds and returns never has
\* more than N elements, and is empty for N = 0.
C8_AtMostLimit ==
    InDiscovery =>
        /\ Len(repositories) <= limit
        /\ limit = 0 => repositories = <<>>

\* collection stopped at N with nodes of the page left unread
C8_Witness ==
    /\ pc = "collected"
    /\ limit >= 1
    /\ Len(repositories) = limit
    /\ lastResp.unread >= 1

\* C9: no repository occurs twice in the sequence discovery produces.
C9_NoDuplicates ==
    InDiscovery =>
        \A j, k \in 1..Len(repositories) :
            j # k => repositories[j] # repositories[k]

\* C10: after a page request that got a non-success status or no connection,
\* no further page request is issued and the function returns the descriptors
\* collected before that request, unchanged.
C10_FailureEndsDiscovery ==
    (InDiscovery /\ failedResp) =>
        /\ pc = "collected"
        /\ Failed(lastResp)
        /\ repositories = reposAtFailure

\* a later page failed after descriptors had been collected
C10_Witness ==
    /\ pc = "collected"
    /\ failedResp
    /\ nreq >= 2
    /\ Len(repositories) >= 1

ScratchGone ==
    /\ ~tempExists
    /\ tree = {}
    /\ zipFile = NoZip
    /\ ckFiles = {}
    /\ classCsv = <<>>

C12_CleanupRepoOncePerIteration ==
    /\ pc = "returned" => cleanups = 1
    /\ \A k \in 1..Len(log) : log[k].cleanups = 1

\* C13: when the user interrupts the run while repository k is being
\* acquired or analysed, the table holds, then and at exit, one row for each
\* repository of 1..k-1 that returned a record, and no row for repository k.
C13_InterruptionKeepsCompletedRows ==
    (pc \in {"interrupted", "exit"} /\ outcome = "interrupted") =>
        LET rows == DataRows(csv)
        IN  /\ Len(log) = i - 1
            /\ Len(rows) = RowIndex(i - 1)
            /\ \A k \in 1..(i - 1) :
                  log[k].returned =>
                      RowIdentity(rows[RowIndex(k)]) = repositories[k]

\* the first repository got its row, the second was interrupted in its
\* analysis, and the process has exited
C13_Witness ==
    /\ pc = "exit"
    /\ outcome = "interrupted"
    /\ i = 2
    /\ repo_path # NoPath
    /\ log[1].returned
    /\ Len(DataRows(csv)) = 1

\* C14: after the start of analyze_repositories_with_ck the table holds no
\* row that an earlier run left.
C14_NoRowOfEarlierRun ==
    pc # "start" =>
        \A k \in 1..Len(DataRows(csv)) :
            DataRows(csv)[k] \notin Range(DataRows(OldTable))

\* C15: the loop goes through the repositories one by one in the order of
\* discovery, and the table grows only by the row of the repository whose
\* iteration has just ended, put after the rows already there.
C15_RowsInProcessingOrder ==
    [][/\ i' \in {i, i + 1}
       /\ (csv' # csv /\ pc # "start") =>
             /\ Len(log) = i - 1
             /\ i' = i + 1
             /\ DataRows(csv') = Append(DataRows(csv), RowLine(result))
             /\ RowIdentity(RowLine(result)) = repositories[i]]_vars

\* two different repositories both got their row, in the order of discovery
C15_Witness ==
    /\ Len(log) = 2
    /\ log[1].returned
    /\ log[2].returned
    /\ repositories[1] # repositories[2]
    /\ [k \in 1..2 |-> RowIdentity(DataRows(csv)[k])]
          = <<repositories[1], repositories[2]>>

\* C16: whatever happened to the repositories before it, every discovered
\* repository has its one iteration: the k-th iteration that ends is that of
\* repository k, and the loop ends only when every repository has had one.
C16_EveryRepositoryAttemptedOnce ==
    /\ \A k \in 1..Len(log) : log[k].index = k
    /\ pc \in InFlight \cup {"returned"} =>
          (Len(log) = i - 1 /\ i <= Len(repositories))
    /\ pc = "summary" => Len(log) = Len(repositories)

\* the first repository failed in acquisition and the second was analysed
C16_Witness ==
    /\ pc = "summary"
    /\ Len(log) = 2
    /\ log[1].outcome = "no_path"
    /\ log[2].outcome = "metrics"

\* C17: when writing a repository's row fails, the run still gives every
\* discovered repository its iteration before it exits.
C17_WriteFaultLosesOnlyThatRow ==
    (pc = "exit" /\ \E k \in 1..Len(log) : log[k].outcome = "append_failed")
        => Len(log) = Len(repositories)

\* C18: when a repository's tool run starts, the scratch directory holds no
\* output file of the tool, and the class table the aggregation reads is the
\* one this repository's run wrote.
C18_NoStaleToolOutput ==
    /\ pc = "analyze" => (ckFiles \cap CsvFiles = {} /\ classCsv = <<>>)
    /\ (pc = "ckdone" /\ classesRead.read) =>
          (toolRun.wrote /\ classesRead.classes = toolRun.classes)

\* the first repository's run left output files behind; the second's run
\* exited with 0 and wrote nothing, and the aggregation found no class table
C18_Witness ==
    /\ pc = "ckdone"
    /\ i = 2
    /\ log[1].leftover
    /\ toolRun.exit = "zero"
    /\ ~toolRun.wrote
    /\ ~classesRead.read
    /\ ~ck_metrics.none

\* C19: when the tool exits with 0 and there is no class.csv, the metrics
\* are a record of zeros, the repository returns a record, and its row
\* carries the zeros.
C19_AbsentTableGivesZeroRow ==
    /\ (pc = "ckdone" /\ toolRun.exit = "zero" /\ ~classesRead.read) =>
          ck_metrics = [none |-> FALSE, values |-> ZeroMetrics]
    /\ \A k \in 1..Len(log) :
          (log[k].outcome = "metrics" /\ ~log[k].classesRead.read) =>
              /\ log[k].returned
              /\ RowIndex(k) <= Len(DataRows(csv))
              /\ DataRows(csv)[RowIndex(k)].values = ZeroMetrics

\* a repository whose run left no class.csv has its row of zeros
C19_Witness ==
    /\ Len(log) = 1
    /\ log[1].outcome = "metrics"
    /\ ~log[1].classesRead.read
    /\ Len(DataRows(csv)) = 1
    /\ DataRows(csv)[1].values = ZeroMetrics

\* C20: when class.csv is there with a cell that is not a number, the
\* metrics of the repository are a record of zeros.
C20_MalformedTableGivesZeros ==
    (pc = "ckdone" /\ classesRead.read /\ ~WellFormed(classesRead.classes)) =>
        ck_metrics = [none |-> FALSE, values |-> ZeroMetrics]

ScratchEmpty ==
    /\ tempExists
    /\ tree = {}
    /\ zipFile = NoZip
    /\ ckFiles = {}
    /\ classCsv = <<>>

\* C22: when an acquisition is about to send its request for the archive,
\* the scratch directory exists and holds nothing.
C22_ScratchEmptyBeforeRequest == pc = "reqMain" => ScratchEmpty

\* the second acquisition starts after a repository whose tool run left
\* output files behind
C22_Witness ==
    /\ pc = "reqMain"
    /\ i = 2
    /\ log[1].leftover
    /\ ScratchEmpty

C28_HeaderOnceAndFirst ==
    (pc # "start" /\ csv.exists) =>
        /\ Len(csv.lines) >= 1
        /\ \A k \in 1..Len(csv.lines) : (csv.lines[k] = HeaderLine) <=> (k = 1)

\* two appends made a table of the header and two rows
C28_Witness ==
    /\ Len(log) = 2
    /\ log[1].returned
    /\ log[2].returned
    /\ Len(csv.lines) = 3
    /\ csv.lines[1] = HeaderLine
    /\ csv.lines[2].kind = "row"
    /\ csv.lines[3].kind = "row"

ClaimedRoot(repo_name, dirs) ==
    LET parts == Split(repo_name)
        named == Len(parts) >= 2
        exact == FirstIn(PossibleNamesMain(repo_name), dirs)
        withBranch == IF named
                      THEN {d \in dirs :
                              /\ Contains(d, parts[2])
                              /\ \/ Contains(d, <<"main">>)
                                 \/ Contains(d, <<"master">>)}
                      ELSE {}
        withName == IF named
                    THEN {d \in dirs : Contains(Lower(d), Lower(parts[2]))}
                    ELSE {}
        sole == IF Cardinality(dirs) = 1 THEN dirs ELSE {}
        nonHidden == {d \in dirs : ~Hidden(d)}
    IN  IF exact # {} THEN exact
        ELSE IF withBranch # {} THEN withBranch
        ELSE IF withName # {} THEN withName
        ELSE IF sole # {} THEN sole
        ELSE nonHidden

\* C23: after a "main" download the search for the extracted directory fails
\* when no strategy matches, and otherwise renames a directory of the first
\* strategy that matches to the local identifier and returns that path.
C23_RootByPriority ==
    [][pc = "resolveMain" =>
        LET repo_name == RepoName(windows, repositories[i])
            choice == ClaimedRoot(repo_name, AllDirs(tree))
        IN  IF choice = {}
            THEN pc' = "returned" /\ outcome' = "no_path" /\ repo_path' = NoPath
            ELSE /\ pc' = "analyze"
                 /\ repo_path' = repo_name
                 /\ \E d \in choice :
                       tree' = IF d = repo_name THEN tree
                               ELSE Rename(tree, d, repo_name)]_vars

\* the same for the steps at which the local identifier is free or is the
\* directory chosen: there the failure and the renaming are as the five
\* strategies say
RootByPriorityUnlessRenameCollides ==
    [][(/\ pc = "resolveMain"
        /\ ~RenameRaises(windows, tree, RepoName(windows, repositories[i]))) =>
        LET repo_name == RepoName(windows, repositories[i])
            choice == ClaimedRoot(repo_name, AllDirs(tree))
        IN  IF choice = {}
            THEN pc' = "returned" /\ outcome' = "no_path" /\ repo_path' = NoPath
            ELSE /\ pc' = "analyze"
                 /\ repo_path' = repo_name
                 /\ \E d \in choice :
                       tree' = IF d = repo_name THEN tree
                               ELSE Rename(tree, d, repo_name)]_vars

\* C27: what is extracted from an archive and which directory is found in
\* the scratch directory are the same after a "master" download as after a
\* "main" download.
C27_BranchIndependent ==
    /\ pc \in {"extractMain", "extractMaster"} =>
          Extract(windows, zipFile.entries, "main")
            = Extract(windows, zipFile.entries, "master")
    /\ pc \in {"resolveMain", "resolveMaster"} =>
          ExtractedPathMain(RepoName(windows, repositories[i]), AllDirs(tree))
            = ExtractedPathMaster(RepoName(windows, repositories[i]), AllDirs(tree))

\* C24: a malformed node never ends discovery: collect_repositories_data is
\* not left by an exception.
C24_MalformedNodeNeverEndsDiscovery == InDiscovery => pc # "raised"

\* C25: the first request has no cursor; a later request is sent only after a
\* response that declared a next page and carries the cursor of that
\* response; the cursor changes only at a request whose response declares a
\* next page, to the cursor of that response.
C25_CursorDiscipline ==
    [][/\ (nreq' = nreq + 1) =>
            /\ (nreq = 0 => ~lastQuery'.hasAfter)
            /\ (nreq >= 1 =>
                  /\ ~Failed(lastResp)
                  /\ lastResp.hasData
                  /\ lastResp.hasNextPage
                  /\ lastQuery'.after = lastResp.endCursor
                  /\ lastQuery'.hasAfter = (lastResp.endCursor # NoCursor))
       /\ (cursor' # cursor) =>
            /\ nreq' = nreq + 1
            /\ lastResp'.hasNextPage
            /\ cursor' = lastResp'.endCursor]_vars

\* the third request carried a cursor and its response declared no next page
C25_Witness ==
    /\ pc = "collected"
    /\ nreq = 3
    /\ lastQuery.hasAfter
    /\ lastQuery.after = 1
    /\ ~Failed(lastResp)
    /\ ~lastResp.hasNextPage

\* a response after which the loop has to end
EndingResponse ==
    \/ collected >= limit
    \/ /\ nreq >= 1
       /\ (Failed(lastResp) \/ ~lastResp.hasData \/ ~lastResp.hasNextPage)

====
